---- MODULE Spec2Model ----
(***************************************************************************)
(* Model of the Oracle MCP server (src/mcp_server.py): the tool           *)
(* dispatcher handle_call_tool, the resource reader handle_read_resource,  *)
(* the lazily opened connection, and the handlers with the statements they *)
(* build, the database calls they make and the text they render.           *)
(*                                                                         *)
(* Text is a sequence of one-character strings, so that upper(), strip()   *)
(* and startswith() are computed.  A catalog statement is a sequence of    *)
(* SQL tokens.  Requests wait until the event loop runs their handler; a   *)
(* handler keeps the loop until it returns or parks at an await that       *)
(* suspends (every database call is a blocking call).                      *)
(***************************************************************************)
EXTENDS Integers, Sequences, FiniteSets, TLC

\* ------------------------------------------------------------- bounds
\* Rows a statement may return (cursor.fetchall()).
MaxRows == 2
\* Cursors that may stay open before the model stops running handlers.
MaxOpenCursors == 2
\* The clock runs from 0 to MaxClock ticks.
MaxClock == 2
\* Clock ticks per second: '%Y%m%d_%H%M%S' keeps whole seconds only.
TicksPerSecond == 2
\* Requests the transport may hold while their handlers have not returned.
MaxWaiting == 2

\* self.config["mcp"].get("max_results", 1000)
DefaultMaxResults == 1000

\* ------------------------------------------------------------- text
Lower == <<"a","b","c","d","e","f","g","h","i","j","k","l","m",
           "n","o","p","q","r","s","t","u","v","w","x","y","z">>
Caps == <<"A","B","C","D","E","F","G","H","I","J","K","L","M",
          "N","O","P","Q","R","S","T","U","V","W","X","Y","Z">>

\* the upper-case form of each lower-case letter
UpperOf == [c \in {Lower[i] : i \in 1..26} |-> Caps[CHOOSE i \in 1..26 : Lower[i] = c]]

\* str.upper() on one character
UpperChar(c) == IF c \in DOMAIN UpperOf THEN UpperOf[c] ELSE c

\* str.upper()
Upper(s) == [i \in 1..Len(s) |-> UpperChar(s[i])]

Whitespace == {" ", "\t", "\n"}

\* str.strip(): leading and trailing whitespace removed
Strip(s) ==
    LET keep == {i \in 1..Len(s) : s[i] \notin Whitespace}
    IN  IF keep = {} THEN <<>>
        ELSE LET lo == CHOOSE i \in keep : \A j \in keep : i <= j
                 hi == CHOOSE i \in keep : \A j \in keep : i >= j
             IN  SubSeq(s, lo, hi)

\* str.startswith(p)
StartsWith(s, p) == Len(s) >= Len(p) /\ SubSeq(s, 1, Len(p)) = p

KwSelect == <<"S","E","L","E","C","T">>
KwWith == <<"W","I","T","H">>

\* the classification without strip(): query.upper().startswith(...)
IsReadProducing_NoStrip(query) ==
    \/ StartsWith(Upper(query), KwSelect)
    \/ StartsWith(Upper(query), KwWith)

\* query.strip().upper().startswith(("SELECT", "WITH"))
IsReadProducing(query) ==
    \/ StartsWith(Upper(Strip(query)), KwSelect)
    \/ StartsWith(Upper(Strip(query)), KwWith)

\* ------------------------------------------------------------- inputs
ToolNames == {"execute_sql", "describe_table", "list_tables",
              "get_table_relationships", "analyze_query_plan"}
\* a name outside the five operations
UnknownNames == {"drop_table"}

\* "  select 1", "With x", "update t", "sel"
Queries == { <<" "," ","s","e","l","e","c","t"," ","1">>,
             <<"W","i","t","h"," ","x">>,
             <<"u","p","d","a","t","e"," ","t">>,
             <<"s","e","l">> }
TableNames == { <<"o","r","d","e","r","s">> }
Schemas == { <<>>, <<"s","a","l","e","s">> }
Patterns == { <<>>, <<"e","m","p">> }
ParamLists == { <<"1">> }

ArgValues(k) ==
    CASE k = "query" -> Queries
      [] k = "params" -> ParamLists
      [] k = "table_name" -> TableNames
      [] k = "schema" -> Schemas
      [] k = "pattern" -> Patterns

\* every argument bag over the given keys: any subset of them present
Bags(keys) ==
    UNION { { f \in [K -> UNION {ArgValues(k) : k \in K}] :
                \A k \in K : f[k] \in ArgValues(k) } : K \in SUBSET keys }

\* arguments.get(key, default)
Get(arguments, key, default) ==
    IF key \in DOMAIN arguments THEN arguments[key] ELSE default

\* the lookup as arguments.get(key, ""), which never raises
MissingKey_Never(arguments, key) == FALSE

\* arguments[key] raises KeyError when the key is absent
MissingKey(arguments, key) == key \notin DOMAIN arguments

\* ------------------------------------------------------------- state
VARIABLES
    config,       \* config["mcp"]: a mapping that may hold "max_results"
    oracledb,     \* whether "import oracledb" succeeded (else oracledb is None)
    connection,   \* self.connection: None, or the handle oracledb.connect returned
    connOpens,    \* successful oracledb.connect calls so far
    openCursors,  \* cursors opened on the connection and not closed
    planTable,    \* rows of PLAN_TABLE: [stmt, id, parent]
    now,          \* the clock, in ticks
    request,      \* the last tool call: [name, arguments]
    env,          \* what the database did during the last call
    result,       \* what handle_call_tool returned for it
    raised,       \* the exception that escaped handle_call_tool, or "none"
    trace,        \* the database calls of the last call, in order
    stmts,        \* the statements the last call executed, in order
    waiting,      \* requests the transport has accepted, their handlers not begun
    suspended     \* handlers that have begun and are parked at an await

vars == <<config, oracledb, connection, connOpens, openCursors, planTable, now,
          request, env, result, raised, trace, stmts, waiting, suspended>>

\* self.connection = None
None == 0

\* one piece of rendered text
Seg(name, a, b, c) == [seg |-> name, a |-> a, b |-> b, c |-> c]

\* [TextContent(type="text", text=prefix + body)]
Text(prefix, body) == [type |-> "text", prefix |-> prefix, body |-> body]
NoResult == [type |-> "none", prefix |-> "", body |-> <<>>]

\* str(e) of the exception e
StrExc(e) == <<Seg(e, 0, 0, 0)>>

\* how a handler ends: it returns a result, or an exception leaves it
Return(st, r) == [st |-> st, exc |-> "none", result |-> r]
Raise(st, e) == [st |-> st, exc |-> e, result |-> NoResult]

\* the state a handler works on
Session == [connection |-> connection, connOpens |-> connOpens,
            openCursors |-> openCursors, planTable |-> planTable,
            trace |-> <<>>, stmts |-> <<>>]

Log(s, op, ok) ==
    [s EXCEPT !.trace = Append(@, [op |-> op, conn |-> s.connection, ok |-> ok])]

\* self.connection.cursor()
Cursor(s, ok) ==
    LET l == Log(s, "cursor", ok)
    IN  IF ok THEN [l EXCEPT !.openCursors = @ + 1] ELSE l

\* cursor.execute(text, params): the statement reaches the database
Execute(s, text, params, ok) ==
    LET l == Log(s, "execute", ok)
    IN  [l EXCEPT !.stmts = Append(@, [text |-> text, params |-> params])]

\* cursor.fetchall()
Fetchall(s, ok) == Log(s, "fetchall", ok)

\* self.connection.commit()
Commit(s, ok) == Log(s, "commit", ok)

\* cursor.close()
Close(s) == [Log(s, "close", TRUE) EXCEPT !.openCursors = @ - 1]

\* ------------------------------------------------------------- connection
\* _connect_database without its early return
AlreadyConnected_Never(s) == FALSE

\* if self.connection is not None: return
AlreadyConnected(s) == s.connection # None

\* lines 228-248: self.connection = oracledb.connect(...); a failure is
\* logged and raised again, self.connection staying None
OpenConnection(s, e) ==
    IF e.connect = "ok"
    THEN [st |-> Log([s EXCEPT !.connection = s.connOpens + 1,
                               !.connOpens = @ + 1], "connect", TRUE),
          exc |-> "none"]
    ELSE [st |-> Log(s, "connect", FALSE), exc |-> "DatabaseError"]

\* _connect_database that tries the open a second time when it failed
ConnectDatabase_Retry(s, e) ==
    IF AlreadyConnected(s) THEN [st |-> s, exc |-> "none"]
    ELSE IF ~oracledb THEN [st |-> s, exc |-> "ImportError"]
    ELSE LET first == OpenConnection(s, e)
         IN  IF first.exc = "none" THEN first ELSE OpenConnection(first.st, e)

\* _connect_database
ConnectDatabase(s, e) ==
    IF AlreadyConnected(s) THEN [st |-> s, exc |-> "none"]
    ELSE IF ~oracledb THEN [st |-> s, exc |-> "ImportError"]
    ELSE OpenConnection(s, e)

\* await self._connect_database() where the open gives the event loop to
\* another handler before it assigns self.connection
ConnectSuspends_AtOpen == TRUE

\* await self._connect_database(): the coroutine has no await of its own
\* and oracledb.connect() is a blocking call, so the handler keeps the event
\* loop from the test of self.connection to the assignment
ConnectSuspends == FALSE

\* ------------------------------------------------------------- execute_sql
\* self.config["mcp"].get("max_results", 1000)
MaxResults == Get(config, "max_results", DefaultMaxResults)

\* lines 272-278: rows = rows[:max_results] when len(rows) > max_results
Shown(nrows) == IF nrows > MaxResults THEN MaxResults ELSE nrows

\* truncated_msg
TruncatedMsg(nrows) ==
    IF nrows > MaxResults THEN <<Seg("truncated", MaxResults, 0, 0)>> ELSE <<>>

\* lines 281-300: the table, or the no-rows message
RenderRows(nrows) ==
    IF Shown(nrows) > 0
    THEN <<Seg("found", Shown(nrows), 0, 0), Seg("header", 0, 0, 0),
           Seg("separator", 0, 0, 0)>>
         \o [i \in 1..Shown(nrows) |-> Seg("row", i, 0, 0)]
         \o TruncatedMsg(nrows)
    ELSE <<Seg("no_rows", 0, 0, 0)>>

\* except Exception as e: return "SQL Error: ..."
SqlError(st) == Return(st, Text("SQL Error: ", StrExc("DatabaseError")))

\* _execute_sql from the try on (lines 257-312)
ExecuteSqlBody(s, query, params, e) ==
    LET s1 == Cursor(s, e.failAt # "cursor")
        s2 == Execute(s1, query, params, e.failAt # "execute")
    IN  IF e.failAt = "cursor" THEN SqlError(s1)
        ELSE IF e.failAt = "execute" THEN SqlError(s2)
        ELSE IF IsReadProducing(query)
        THEN LET s3 == Fetchall(s2, e.failAt # "fetchall")
             IN  IF e.failAt = "fetchall" THEN SqlError(s3)
                 ELSE IF e.failAt = "format" /\ Shown(e.nrows) > 0
                      THEN SqlError(s3)
                 ELSE Return(Close(s3), Text("", RenderRows(e.nrows)))
        ELSE LET s3 == Commit(s2, e.failAt # "commit")
             IN  IF e.failAt = "commit" THEN SqlError(s3)
                 ELSE Return(Close(s3),
                             Text("", <<Seg("affected", e.nrows, 0, 0)>>))

\* _execute_sql
ExecuteSql(s, arguments, e) ==
    LET c == ConnectDatabase(s, e)
    IN  IF c.exc # "none" THEN Raise(c.st, c.exc)
        ELSE IF MissingKey(arguments, "query") THEN Raise(c.st, "KeyError")
        ELSE ExecuteSqlBody(c.st, Get(arguments, "query", <<>>),
                            Get(arguments, "params", <<>>), e)

\* ------------------------------------------------------------- statements
\* the bind placeholders the catalog statements use
PlaceholderTokens == {":table_name", ":schema", ":pattern", ":stmt_id"}

\* the placeholders of a statement text, counted
Placeholders(text) ==
    Cardinality({i \in 1..Len(text) : text[i] \in PlaceholderTokens})

\* ------------------------------------------------------------- describe_table
\* lines 318-319 with the schema bound as given, not upper-cased
DescribeArgs_SchemaAsGiven(arguments) ==
    [table_name |-> Upper(Get(arguments, "table_name", <<>>)),
     schema |-> Get(arguments, "schema", <<>>)]

\* lines 318-319: table_name and schema as bound
DescribeArgs(arguments) ==
    [table_name |-> Upper(Get(arguments, "table_name", <<>>)),
     schema |-> Upper(Get(arguments, "schema", <<>>))]

\* lines 325-342: the statement and the parameters bound to it
DescribeStatement(table_name, schema) ==
    IF schema # <<>>
    THEN [text |-> <<"SELECT", "COLUMN_NAME", ",", "DATA_TYPE", ",", "DATA_LENGTH",
                     ",", "DATA_PRECISION", ",", "DATA_SCALE", ",", "NULLABLE",
                     ",", "DATA_DEFAULT", "FROM", "ALL_TAB_COLUMNS",
                     "WHERE", "TABLE_NAME", "=", ":table_name",
                     "AND", "OWNER", "=", ":schema",
                     "ORDER BY", "COLUMN_ID">>,
          params |-> <<table_name, schema>>]
    ELSE [text |-> <<"SELECT", "COLUMN_NAME", ",", "DATA_TYPE", ",", "DATA_LENGTH",
                     ",", "DATA_PRECISION", ",", "DATA_SCALE", ",", "NULLABLE",
                     ",", "DATA_DEFAULT", "FROM", "USER_TAB_COLUMNS",
                     "WHERE", "TABLE_NAME", "=", ":table_name",
                     "ORDER BY", "COLUMN_ID">>,
          params |-> <<table_name>>]

\* lines 350-366: the table description
RenderColumns(ncols) ==
    <<Seg("table", 0, 0, 0), Seg("header", 0, 0, 0), Seg("separator", 0, 0, 0)>>
    \o [i \in 1..ncols |-> Seg("column", i, 0, 0)]

\* _describe_table from the try on (lines 321-373)
DescribeTableBody(s, a, e) ==
    LET q == DescribeStatement(a.table_name, a.schema)
        s1 == Cursor(s, e.failAt # "cursor")
        s2 == Execute(s1, q.text, q.params, e.failAt # "execute")
        s3 == Fetchall(s2, e.failAt # "fetchall")
        err(st) == Return(st, Text("Error describing table: ", StrExc("DatabaseError")))
    IN  IF e.failAt = "cursor" THEN err(s1)
        ELSE IF e.failAt = "execute" THEN err(s2)
        ELSE IF e.failAt = "fetchall" THEN err(s3)
        ELSE IF e.nrows = 0
             THEN Return(s3, Text("", <<Seg("table_not_found", 0, 0, 0)>>))
        ELSE Return(Close(s3), Text("", RenderColumns(e.nrows)))

\* _describe_table
DescribeTable(s, arguments, e) ==
    LET c == ConnectDatabase(s, e)
    IN  IF c.exc # "none" THEN Raise(c.st, c.exc)
        ELSE IF MissingKey(arguments, "table_name") THEN Raise(c.st, "KeyError")
        ELSE DescribeTableBody(c.st, DescribeArgs(arguments), e)

\* ------------------------------------------------------------- list_tables
\* lines 385-396: the statement and the parameters bound to it
ListStatement(schema, pattern) ==
    LET base == IF schema # <<>>
                THEN [text |-> <<"SELECT", "TABLE_NAME", "FROM", "ALL_TABLES",
                                 "WHERE", "OWNER", "=", ":schema">>,
                      params |-> <<schema>>]
                ELSE [text |-> <<"SELECT", "TABLE_NAME", "FROM", "USER_TABLES">>,
                      params |-> <<>>]
        filtered == IF pattern # <<>>
                    THEN [text |-> base.text \o <<"AND", "TABLE_NAME", "LIKE", ":pattern">>,
                          params |-> Append(base.params,
                                            <<"%">> \o Upper(pattern) \o <<"%">>)]
                    ELSE base
    IN  [text |-> filtered.text \o <<"ORDER BY", "TABLE_NAME">>,
         params |-> filtered.params]

\* lines 404-406: the list of tables
RenderTables(ntables) ==
    <<Seg("found", ntables, 0, 0)>> \o [i \in 1..ntables |-> Seg("table", i, 0, 0)]

\* _list_tables from the try on (lines 382-413)
ListTablesBody(s, schema, pattern, e) ==
    LET q == ListStatement(schema, pattern)
        s1 == Cursor(s, e.failAt # "cursor")
        s2 == Execute(s1, q.text, q.params, e.failAt # "execute")
        s3 == Fetchall(s2, e.failAt # "fetchall")
        err(st) == Return(st, Text("Error listing tables: ", StrExc("DatabaseError")))
    IN  IF e.failAt = "cursor" THEN err(s1)
        ELSE IF e.failAt = "execute" THEN err(s2)
        ELSE IF e.failAt = "fetchall" THEN err(s3)
        ELSE IF e.nrows = 0
             THEN Return(s3, Text("", <<Seg("no_tables", 0, 0, 0)>>))
        ELSE Return(Close(s3), Text("", RenderTables(e.nrows)))

\* _list_tables
ListTables(s, arguments, e) ==
    LET c == ConnectDatabase(s, e)
    IN  IF c.exc # "none" THEN Raise(c.st, c.exc)
        ELSE ListTablesBody(c.st, Upper(Get(arguments, "schema", <<>>)),
                            Get(arguments, "pattern", <<>>), e)

\* ------------------------------------------------------------- get_table_relationships
\* The constraint catalog the relationship query reads.  A catalog is the
\* sequence of column counts of the foreign keys of table ORDERS (owner SALES,
\* the session user): foreign key i has cat[i] columns and references the
\* primary key -i of another table, which has as many columns.
OrdersName == <<"O","R","D","E","R","S">>
ParentName == <<"P","A","R","E","N","T">>
OwnerName == <<"S","A","L","E","S">>
FkCatalogs == { <<>>, <<1>>, <<2>>, <<2, 1, 3>> }

\* ALL_CONS_COLUMNS / USER_CONS_COLUMNS
ConsColumns(cat) ==
    UNION { { [cons |-> i, owner |-> OwnerName, table |-> OrdersName, pos |-> p]
                : p \in 1..cat[i] } : i \in 1..Len(cat) }
    \cup
    UNION { { [cons |-> 0 - i, owner |-> OwnerName, table |-> ParentName, pos |-> p]
                : p \in 1..cat[i] } : i \in 1..Len(cat) }

\* ALL_CONSTRAINTS / USER_CONSTRAINTS
Constraints(cat) ==
    { [cons |-> i, type |-> "R", rcons |-> 0 - i, table |-> OrdersName]
        : i \in 1..Len(cat) }
    \cup
    { [cons |-> 0 - i, type |-> "P", rcons |-> 0, table |-> ParentName]
        : i \in 1..Len(cat) }

\* lines 419-420: table_name and schema as bound
RelationshipArgs(arguments) ==
    [table_name |-> Upper(Get(arguments, "table_name", <<>>)),
     schema |-> Upper(Get(arguments, "schema", <<>>))]

\* lines 426-452: the statement and the parameters bound to it
RelationshipStatement(table_name, schema) ==
    LET cc == IF schema # <<>> THEN "ALL_CONS_COLUMNS" ELSE "USER_CONS_COLUMNS"
        cs == IF schema # <<>> THEN "ALL_CONSTRAINTS" ELSE "USER_CONSTRAINTS"
        head == <<"SELECT", "a.CONSTRAINT_NAME", ",", "a.COLUMN_NAME", ",",
                  "c_pk.TABLE_NAME", ",", "a_pk.COLUMN_NAME",
                  "FROM", cc, "a",
                  "JOIN", cs, "c", "ON", "a.CONSTRAINT_NAME", "=", "c.CONSTRAINT_NAME",
                  "JOIN", cs, "c_pk", "ON", "c.R_CONSTRAINT_NAME", "=",
                          "c_pk.CONSTRAINT_NAME",
                  "JOIN", cc, "a_pk", "ON", "c_pk.CONSTRAINT_NAME", "=",
                          "a_pk.CONSTRAINT_NAME",
                  "WHERE", "c.CONSTRAINT_TYPE", "=", "'R'",
                  "AND", "a.TABLE_NAME", "=", ":table_name">>
        order == <<"ORDER BY", "a.CONSTRAINT_NAME", ",", "a.POSITION">>
    IN  IF schema # <<>>
        THEN [text |-> head \o <<"AND", "a.OWNER", "=", ":schema">> \o order,
              params |-> <<table_name, schema>>]
        ELSE [text |-> head \o order, params |-> <<table_name>>]

\* The rows the four-way join selects: a joined to c on the constraint name,
\* c to c_pk on the referenced constraint, c_pk to a_pk on the constraint name
\* alone; filtered by constraint type, table name and (when bound) owner.
RelationshipRows(cat, params) ==
    LET a_rows == { a \in ConsColumns(cat) :
                      /\ a.table = params[1]
                      /\ (Len(params) = 2 => a.owner = params[2]) }
        joined(a) == { j \in Constraints(cat) \X Constraints(cat) \X ConsColumns(cat) :
                         /\ a.cons = j[1].cons
                         /\ j[1].rcons = j[2].cons
                         /\ j[2].cons = j[3].cons
                         /\ j[1].type = "R" }
    IN  UNION { { [cons |-> a.cons, pos |-> a.pos, refpos |-> j[3].pos]
                    : j \in joined(a) } : a \in a_rows }

\* ORDER BY a.CONSTRAINT_NAME, a.POSITION; rows equal in both come in the
\* order the database happens to produce (tie)
EdgeBefore(x, y, tie) ==
    \/ x.cons < y.cons
    \/ x.cons = y.cons /\ x.pos < y.pos
    \/ x.cons = y.cons /\ x.pos = y.pos
         /\ IF tie = "asc" THEN x.refpos <= y.refpos ELSE x.refpos >= y.refpos

RECURSIVE SortEdges(_, _)
SortEdges(S, tie) ==
    IF S = {} THEN <<>>
    ELSE LET m == CHOOSE x \in S : \A y \in S : EdgeBefore(x, y, tie)
         IN  <<m>> \o SortEdges(S \ {m}, tie)

\* lines 459-465: one line per fetched row
RenderRelationships(rows) ==
    <<Seg("title", 0, 0, 0), Seg("header", 0, 0, 0), Seg("separator", 0, 0, 0)>>
    \o [i \in 1..Len(rows) |-> Seg("edge", rows[i].cons, rows[i].pos, rows[i].refpos)]

\* _get_table_relationships from the try on (lines 422-472)
RelationshipsBody(s, a, e) ==
    LET q == RelationshipStatement(a.table_name, a.schema)
        s1 == Cursor(s, e.failAt # "cursor")
        s2 == Execute(s1, q.text, q.params, e.failAt # "execute")
        s3 == Fetchall(s2, e.failAt # "fetchall")
        relationships == SortEdges(RelationshipRows(e.fk, q.params), e.tie)
        err(st) == Return(st, Text("Error getting relationships: ",
                                   StrExc("DatabaseError")))
    IN  IF e.failAt = "cursor" THEN err(s1)
        ELSE IF e.failAt = "execute" THEN err(s2)
        ELSE IF e.failAt = "fetchall" THEN err(s3)
        ELSE IF relationships = <<>>
             THEN Return(s3, Text("", <<Seg("no_relationships", 0, 0, 0)>>))
        ELSE Return(Close(s3), Text("", RenderRelationships(relationships)))

\* _get_table_relationships
GetTableRelationships(s, arguments, e) ==
    LET c == ConnectDatabase(s, e)
    IN  IF c.exc # "none" THEN Raise(c.st, c.exc)
        ELSE IF MissingKey(arguments, "table_name") THEN Raise(c.st, "KeyError")
        ELSE RelationshipsBody(c.st, RelationshipArgs(arguments), e)

\* ------------------------------------------------------------- analyze_query_plan
\* A plan tree: node i-1 has parent tree[i]; the root is node 0, parent -1.
\* In the last tree node 2 is the child of the root and node 1 its child.
PlanTrees == { <<-1, 0>>, <<-1, 0, 0>>, <<-1, 2, 0>> }

\* f"MCP_PLAN_{datetime.now().strftime('%Y%m%d_%H%M%S')}": the clock cut to
\* whole seconds
StmtId(t) == t \div TicksPerSecond

\* EXPLAIN PLAN SET STATEMENT_ID = stmt_id: the rows the database registers
ExplainRows(stmt_id, tree) ==
    { [stmt |-> stmt_id, id |-> i - 1, parent |-> tree[i]] : i \in 1..Len(tree) }

\* CONNECT BY PRIOR ID = PARENT_ID: the paths of length up to n + 1 that
\* prolong the given paths by child rows
RECURSIVE Descend(_, _, _)
Descend(rows, paths, n) ==
    IF n = 0 \/ paths = {} THEN {}
    ELSE LET next == { Append(x[1], x[2]) :
                         x \in { y \in paths \X rows :
                                   y[2].parent = y[1][Len(y[1])].id } }
         IN  next \cup Descend(rows, next, n - 1)

\* START WITH ID = 0 CONNECT BY PRIOR ID = PARENT_ID, then
\* WHERE STATEMENT_ID = :stmt_id: one selected row per path of the walk
\* that ends in a row of the statement, LEVEL being the length of the path
PlanPaths(rows, stmt_id) ==
    LET roots == { <<r>> : r \in { x \in rows : x.id = 0 } }
        all == roots \cup Descend(rows, roots, Cardinality(rows))
    IN  { p \in all : p[Len(p)].stmt = stmt_id }

\* ORDER BY ID
RECURSIVE SortPlan(_)
SortPlan(paths) ==
    IF paths = {} THEN <<>>
    ELSE LET m == CHOOSE p \in paths :
                    \A q \in paths : p[Len(p)].id <= q[Len(q)].id
         IN  <<m>> \o SortPlan(paths \ {m})

\* lines 490-503: the plan rows as fetched, each [id, level]
PlanRows(rows, stmt_id) ==
    LET sorted == SortPlan(PlanPaths(rows, stmt_id))
    IN  [i \in 1..Len(sorted) |->
           [id |-> sorted[i][Len(sorted[i])].id, level |-> Len(sorted[i])]]

\* lines 508-514: LPAD(' ', 2 * LEVEL) || OPERATION ..., one line per row
RenderPlan(plan_rows) ==
    <<Seg("title", 0, 0, 0), Seg("header", 0, 0, 0), Seg("separator", 0, 0, 0)>>
    \o [i \in 1..Len(plan_rows) |->
          Seg("plan", plan_rows[i].id, 2 * plan_rows[i].level, 0)]

ExplainText(query) == <<"EXPLAIN PLAN SET STATEMENT_ID =", "'stmt_id'", "FOR">> \o query
PlanQueryText == <<"SELECT", "PLAN_LINE", ",", "COST", ",", "CARDINALITY",
                   "FROM", "PLAN_TABLE", "WHERE", "STATEMENT_ID", "=", ":stmt_id",
                   "START WITH", "ID", "=", "0",
                   "CONNECT BY", "PRIOR", "ID", "=", "PARENT_ID",
                   "ORDER BY", "ID">>
DeleteText == <<"DELETE", "FROM", "PLAN_TABLE",
                "WHERE", "STATEMENT_ID", "=", ":stmt_id">>

\* _analyze_query_plan from the try on (lines 480-525)
AnalyzeQueryPlanBody(s, query, e) ==
    LET stmt_id == StmtId(now)
        s1 == Cursor(s, e.failAt # "cursor")
        s2 == Execute(s1, ExplainText(query), <<>>, e.failAt # "execute")
        s2r == [s2 EXCEPT !.planTable = @ \cup ExplainRows(stmt_id, e.tree)]
        s3 == Execute(s2r, PlanQueryText, <<stmt_id>>, e.failAt # "execute_plan")
        s4 == Fetchall(s3, e.failAt # "fetchall")
        plan_rows == PlanRows(s4.planTable, stmt_id)
        s5 == Execute(s4, DeleteText, <<stmt_id>>, e.failAt # "execute_delete")
        s5d == [s5 EXCEPT !.planTable = { r \in @ : r.stmt # stmt_id }]
        s6 == Commit(s5d, e.failAt # "commit")
        err(st) == Return(st, Text("Error analyzing plan: ", StrExc("DatabaseError")))
    IN  IF e.failAt = "cursor" THEN err(s1)
        ELSE IF e.failAt = "execute" THEN err(s2)
        ELSE IF e.failAt = "execute_plan" THEN err(s3)
        ELSE IF e.failAt = "fetchall" THEN err(s4)
        ELSE IF plan_rows = <<>>
             THEN Return(s4, Text("", <<Seg("no_plan", 0, 0, 0)>>))
        ELSE IF e.failAt = "execute_delete" THEN err(s5)
        ELSE IF e.failAt = "commit" THEN err(s6)
        ELSE Return(Close(s6), Text("", RenderPlan(plan_rows)))

\* _analyze_query_plan
AnalyzeQueryPlan(s, arguments, e) ==
    LET c == ConnectDatabase(s, e)
    IN  IF c.exc # "none" THEN Raise(c.st, c.exc)
        ELSE IF MissingKey(arguments, "query") THEN Raise(c.st, "KeyError")
        ELSE AnalyzeQueryPlanBody(c.st, Get(arguments, "query", <<>>), e)

\* ------------------------------------------------------------- resources
SchemaUri == "oracle://database/schema"
TablesUri == "oracle://database/tables"
ResourceUris == {SchemaUri, TablesUri}
\* a URI outside the two resources
UnknownUris == {"oracle://database/users"}

\* json.dumps of a mapping, named by its first key
Json(key, body) == [type |-> "json", prefix |-> key, body |-> body]

\* "SELECT TABLE_NAME FROM USER_TABLES ORDER BY TABLE_NAME"
SchemaQueryText == <<"SELECT", "TABLE_NAME", "FROM", "USER_TABLES",
                     "ORDER BY", "TABLE_NAME">>
\* SELECT TABLE_NAME, NUM_ROWS, LAST_ANALYZED FROM USER_TABLES ORDER BY ...
TablesQueryText == <<"SELECT", "TABLE_NAME", ",", "NUM_ROWS", ",", "LAST_ANALYZED",
                     "FROM", "USER_TABLES", "ORDER BY", "TABLE_NAME">>

\* lines 544-554 and 572-582: the catalog query and the JSON built from its
\* rows; except Exception: return json.dumps({"error": str(e)})
CatalogSummary(s, text, e) ==
    LET s1 == Cursor(s, e.failAt # "cursor")
        s2 == Execute(s1, text, <<>>, e.failAt # "execute")
        s3 == Fetchall(s2, e.failAt # "fetchall")
        err(st) == Return(st, Json("error", StrExc("DatabaseError")))
    IN  IF e.failAt = "cursor" THEN err(s1)
        ELSE IF e.failAt = "execute" THEN err(s2)
        ELSE IF e.failAt = "fetchall" THEN err(s3)
        ELSE Return(Close(s3),
                    Json("tables", [i \in 1..e.nrows |-> Seg("table", i, 0, 0)]))

\* _get_database_schema: the connection is opened before the try; inside it,
\* db_index.json is returned as read when it exists
GetDatabaseSchema(s, e) ==
    LET c == ConnectDatabase(s, e)
    IN  IF c.exc # "none" THEN Raise(c.st, c.exc)
        ELSE IF e.index = "present"
             THEN IF e.failAt = "index"
                  THEN Return(c.st, Json("error", StrExc("OSError")))
                  ELSE Return(c.st, Json("file", <<>>))
        ELSE CatalogSummary(c.st, SchemaQueryText, e)

\* _get_database_tables: the connection is opened before the try
GetDatabaseTables(s, e) ==
    LET c == ConnectDatabase(s, e)
    IN  IF c.exc # "none" THEN Raise(c.st, c.exc)
        ELSE CatalogSummary(c.st, TablesQueryText, e)

\* handle_read_resource: the except clause logs the exception and raises it
\* again
ReadResource(s, uri, e) ==
    CASE uri = SchemaUri -> GetDatabaseSchema(s, e)
      [] uri = TablesUri -> GetDatabaseTables(s, e)
      [] OTHER -> Raise(s, "ValueError")

\* ------------------------------------------------------------- dispatcher
\* handle_call_tool without its except clause: the exception leaves it
CatchAtDispatch_Propagate(name, out) == out

\* lines 181-184: except Exception as e: return "Error executing {name}: {e}"
CatchAtDispatch(name, out) ==
    IF out.exc # "none"
    THEN Return(out.st, Text("Error executing ", <<Seg(name, 0, 0, 0)>> \o StrExc(out.exc)))
    ELSE out

\* the else branch opening the connection before it answers
UnknownTool_Connects(s, name, e) ==
    Return(ConnectDatabase(s, e).st, Text("Unknown tool: ", <<Seg(name, 0, 0, 0)>>))

\* lines 179-180: else: return "Unknown tool: {name}"
UnknownTool(s, name, e) ==
    Return(s, Text("Unknown tool: ", <<Seg(name, 0, 0, 0)>>))

\* lines 169-180: the routing by name
Route(s, name, arguments, e) ==
    CASE name = "execute_sql" -> ExecuteSql(s, arguments, e)
      [] name = "describe_table" -> DescribeTable(s, arguments, e)
      [] name = "list_tables" -> ListTables(s, arguments, e)
      [] name = "get_table_relationships" -> GetTableRelationships(s, arguments, e)
      [] name = "analyze_query_plan" -> AnalyzeQueryPlan(s, arguments, e)
      [] OTHER -> UnknownTool(s, name, e)

\* handle_call_tool
CallTool(s, name, arguments, e) == CatchAtDispatch(name, Route(s, name, arguments, e))

\* ------------------------------------------------------------- environment
\* What the database does during one call: whether oracledb.connect succeeds,
\* which database call raises (failAt), how many rows the statement yields,
\* the constraint catalog, the plan the database registers, and the order of
\* rows the ORDER BY leaves open.
DefaultEnv == [connect |-> "ok", failAt |-> "none", nrows |-> 0,
               fk |-> <<>>, tree |-> <<-1, 0>>, tie |-> "asc",
               index |-> "absent"]

FailPoints(name) ==
    CASE name = "execute_sql" ->
           {"none", "cursor", "execute", "fetchall", "format", "commit"}
      [] name \in {"describe_table", "list_tables", "get_table_relationships",
                   TablesUri} ->
           {"none", "cursor", "execute", "fetchall"}
      [] name = SchemaUri -> {"none", "index", "cursor", "execute", "fetchall"}
      [] name = "analyze_query_plan" ->
           {"none", "cursor", "execute", "execute_plan", "fetchall",
            "execute_delete", "commit"}
      [] OTHER -> {"none"}

ConnectOutcomes(name) ==
    IF name \in ToolNames \cup ResourceUris /\ connection = None /\ oracledb
    THEN {"ok", "fail"} ELSE {"ok"}

\* the arguments a handler subscripts (arguments[key])
Required(name) ==
    CASE name \in {"execute_sql", "analyze_query_plan"} -> {"query"}
      [] name \in {"describe_table", "get_table_relationships"} -> {"table_name"}
      [] OTHER -> {}

\* the environments of a call, the parts the call cannot observe left at
\* their defaults
Envs(name, arguments) ==
    { e \in [connect : ConnectOutcomes(name),
             failAt : FailPoints(name),
             nrows : IF name \in {"execute_sql", "describe_table", "list_tables"}
                                  \cup ResourceUris
                     THEN 0..MaxRows ELSE {0},
             fk : IF name = "get_table_relationships" THEN FkCatalogs ELSE {<<>>},
             tree : IF name = "analyze_query_plan" THEN PlanTrees ELSE {<<-1, 0>>},
             tie : IF name = "get_table_relationships" THEN {"asc", "desc"}
                   ELSE {"asc"},
             index : IF name = SchemaUri THEN {"absent", "present"}
                     ELSE {"absent"}] :
        /\ (e.connect = "fail" \/ ~oracledb
              \/ ~(Required(name) \subseteq DOMAIN arguments)) =>
             [e EXCEPT !.connect = "ok"] = DefaultEnv
        /\ e.failAt \notin {"none", "format"} =>
             e.nrows = 0 /\ e.fk = <<>> /\ e.tie = "asc"
        /\ e.failAt \in {"cursor", "execute"} => e.tree = <<-1, 0>>
        /\ e.failAt = "format" => e.nrows > 0
        /\ e.index = "present" => e.failAt \in {"none", "index"} /\ e.nrows = 0
        /\ e.failAt = "index" => e.index = "present"
        /\ e.tie = "desc" => \E i \in 1..Len(e.fk) : e.fk[i] > 1 }

\* the argument bags a tool is called with: any subset of the keys its input
\* schema declares (a handler reads no other key)
ToolBags(name) ==
    CASE name = "execute_sql" -> Bags({"query", "params"})
      [] name = "analyze_query_plan" -> Bags({"query"})
      [] name \in {"describe_table", "get_table_relationships"} ->
           Bags({"table_name", "schema"})
      [] name = "list_tables" -> Bags({"schema", "pattern"})
      [] name \in ResourceUris \cup UnknownUris -> {<<>>}
      [] OTHER -> Bags({"query"})

\* ------------------------------------------------------------- actions
\* __init__: self.connection = None; the configuration is loaded once
Init ==
    /\ config \in {<<>>} \cup {[max_results |-> c] : c \in 0..(MaxRows - 1)}
    /\ oracledb \in BOOLEAN
    /\ connection = None
    /\ connOpens = 0
    /\ openCursors = 0
    /\ planTable = {}
    /\ now = 0
    /\ request = [name |-> "none", arguments |-> <<>>]
    /\ env = DefaultEnv
    /\ result = NoResult
    /\ raised = "none"
    /\ trace = <<>>
    /\ stmts = <<>>
    /\ waiting = 0
    /\ suspended = {}

\* no handler's result is waiting to be sent
Idle == request.name = "none"

\* self.server.run reads a request from the stream and starts a task for its
\* handler; the task runs when the event loop gets to it
Accept ==
    /\ waiting + Cardinality(suspended) < MaxWaiting
    /\ waiting' = waiting + 1
    /\ UNCHANGED <<config, oracledb, connection, connOpens, openCursors, planTable,
                   now, request, env, result, raised, trace, stmts, suspended>>

\* the handlers of one name the event loop can run next: the handler of a
\* waiting request, about to begin, or a handler parked at its await
Tasks(name) ==
    (IF waiting > 0
     THEN UNION { { [name |-> name, arguments |-> a, env |-> e, at |-> "entry"] :
                      e \in Envs(name, a) } : a \in ToolBags(name) }
     ELSE {})
    \cup { t \in suspended : t.name = name }

\* the handler that begins is about to open the connection: its first
\* statement is await self._connect_database(), and self.connection is None
ReachesOpen(t) ==
    /\ t.at = "entry"
    /\ t.name \in ToolNames \cup ResourceUris
    /\ connection = None /\ oracledb

\* the handler's code from its first line to its return
Serve(s, t) ==
    IF t.name \in ResourceUris \cup UnknownUris
    THEN ReadResource(s, t.name, t.env)
    ELSE CallTool(s, t.name, t.arguments, t.env)

\* what a handler does from where it stands to its return
Outcome(t) ==
    IF t.at = "entry" THEN Serve(Session, t)
    ELSE LET o == OpenConnection(Session, t.env)
         IN  IF o.exc = "none" THEN Serve(o.st, t)
             ELSE IF t.name \in ResourceUris THEN Raise(o.st, o.exc)
             ELSE CatchAtDispatch(t.name, Raise(o.st, o.exc))

\* one turn of the event loop for a handler: it runs until it returns or
\* parks at an await that gives the loop away
RunHandler(name) ==
    /\ openCursors < MaxOpenCursors
    /\ \E t \in Tasks(name) :
         IF ConnectSuspends /\ ReachesOpen(t)
         THEN /\ suspended' = suspended \cup {[t EXCEPT !.at = "open"]}
              /\ waiting' = waiting - 1
              /\ UNCHANGED <<connection, connOpens, openCursors, planTable,
                             request, env, result, raised, trace, stmts>>
         ELSE \E out \in {Outcome(t)} :
                /\ connection' = out.st.connection
                /\ connOpens' = out.st.connOpens
                /\ openCursors' = out.st.openCursors
                /\ planTable' = out.st.planTable
                /\ trace' = out.st.trace
                /\ stmts' = out.st.stmts
                /\ request' = [name |-> t.name, arguments |-> t.arguments]
                /\ env' = t.env
                /\ result' = out.result
                /\ raised' = out.exc
                /\ suspended' = suspended \ {t}
                /\ waiting' = IF t.at = "entry" THEN waiting - 1 ELSE waiting
    /\ UNCHANGED <<config, oracledb, now>>

\* one call of handle_call_tool(name, arguments)
HandleCallTool(name) == RunHandler(name)

\* one call of handle_read_resource(uri)
HandleReadResource(uri) == RunHandler(uri)

\* the event loop runs the handler of a request once the result of the
\* handler before it has been sent
CallExecuteSql == Idle /\ HandleCallTool("execute_sql")
CallDescribeTable == Idle /\ HandleCallTool("describe_table")
CallListTables == Idle /\ HandleCallTool("list_tables")
CallGetTableRelationships == Idle /\ HandleCallTool("get_table_relationships")
CallAnalyzeQueryPlan == Idle /\ HandleCallTool("analyze_query_plan")
CallUnknownTool == Idle /\ \E name \in UnknownNames : HandleCallTool(name)
ReadSchema == Idle /\ HandleReadResource(SchemaUri)
ReadTables == Idle /\ HandleReadResource(TablesUri)
ReadUnknownResource == Idle /\ \E uri \in UnknownUris : HandleReadResource(uri)

\* the server sends the result of the call to the client and is ready for the
\* next request; nothing of the call is kept
Deliver ==
    /\ ~Idle
    /\ request' = [name |-> "none", arguments |-> <<>>]
    /\ env' = DefaultEnv
    /\ result' = NoResult
    /\ raised' = "none"
    /\ trace' = <<>>
    /\ stmts' = <<>>
    /\ UNCHANGED <<config, oracledb, connection, connOpens, openCursors, planTable,
                   now, waiting, suspended>>

\* time passes between calls
Tick ==
    /\ now < MaxClock
    /\ now' = now + 1
    /\ UNCHANGED <<config, oracledb, connection, connOpens, openCursors, planTable,
                   request, env, result, raised, trace, stmts, waiting, suspended>>

\* A cursor object the handler dropped without close() is closed when the
\* interpreter reclaims it, at a time the program does not control.
Finalize ==
    /\ openCursors > 0
    /\ openCursors' = openCursors - 1
    /\ UNCHANGED <<config, oracledb, connection, connOpens, planTable, now,
                   request, env, result, raised, trace, stmts, waiting, suspended>>

Next ==
    \/ Accept
    \/ CallExecuteSql
    \/ CallDescribeTable
    \/ CallListTables
    \/ CallGetTableRelationships
    \/ CallAnalyzeQueryPlan
    \/ CallUnknownTool
    \/ ReadSchema
    \/ ReadTables
    \/ ReadUnknownResource
    \/ Deliver
    \/ Tick
    \/ Finalize

Spec == Init /\ [][Next]_vars

\* ------------------------------------------------------------- properties
\* a tool call has been served and its result is at hand
Served == ~Idle
Called(name) == request.name = name

\* the positions of the database calls of one kind in the last call's trace
Ops(op) == {i \in 1..Len(trace) : trace[i].op = op}
Did(op) == Ops(op) # {}
DidOk(op) == \E i \in Ops(op) : trace[i].ok
Failed(op) == \E i \in Ops(op) : ~trace[i].ok

\* the positions of the pieces of one kind in the rendered result
Segs(name) == {i \in 1..Len(result.body) : result.body[i].seg = name}

\* the texts that open an error result
ErrorPrefixes == {"Error executing ", "SQL Error: ", "Error describing table: ",
                  "Error listing tables: ", "Error getting relationships: ",
                  "Error analyzing plan: "}
IsError == result.prefix \in ErrorPrefixes

\* the last call lacks the argument its handler subscripts
LacksRequired ==
    \/ /\ request.name \in {"execute_sql", "analyze_query_plan"}
       /\ "query" \notin DOMAIN request.arguments
    \/ /\ request.name \in {"describe_table", "get_table_relationships"}
       /\ "table_name" \notin DOMAIN request.arguments

\* the last request was a tool call
ToolCall == request.name \in ToolNames \cup UnknownNames

\* C1: whatever the tool name, the arguments and the point of failure,
\* handle_call_tool returns a text result and no exception reaches its caller;
\* and after a failed request the server goes on to the next request, for
\* which every tool can be called.
C1_DispatcherNeverRaises ==
    /\ (Served /\ ToolCall) => raised = "none" /\ result.type = "text"
    /\ (Served /\ ToolCall /\ IsError) => ENABLED Deliver
    /\ (Idle /\ waiting > 0 /\ openCursors < MaxOpenCursors) =>
         /\ ENABLED CallExecuteSql
         /\ ENABLED CallDescribeTable
         /\ ENABLED CallListTables
         /\ ENABLED CallGetTableRelationships
         /\ ENABLED CallAnalyzeQueryPlan

\* C1 witness: a call whose connection open failed came back as an error text
C1_Witness ==
    /\ Served /\ ToolCall /\ Failed("connect")
    /\ raised = "none" /\ result.type = "text"
    /\ result.prefix = "Error executing "

\* the statement identifier the last analyze_query_plan call generated: the
\* parameter bound to its plan query
PlanStmtId == stmts[2].params[1]

\* the last call was an analyze_query_plan whose EXPLAIN PLAN succeeded
PlanRegistered ==
    /\ Called("analyze_query_plan")
    /\ Ops("execute") # {}
    /\ trace[CHOOSE i \in Ops("execute") : \A j \in Ops("execute") : i <= j].ok

\* the last call sent the DELETE of its plan rows, and the DELETE did not fail
DeleteSent == \E i \in 1..Len(stmts) : stmts[i].text = DeleteText
DeleteFailed ==
    \E i \in Ops("execute") :
        /\ ~trace[i].ok
        /\ Cardinality({j \in Ops("execute") : j <= i}) = 3

\* C2: an analyze_query_plan call that registered a plan sends the DELETE of
\* its plan rows before it returns, whichever way it returns, and (the DELETE
\* not failing) leaves no row of its statement identifier in the plan table
C2_PlanRowsDeleted ==
    PlanRegistered =>
        /\ DeleteSent
        /\ ~DeleteFailed => \A r \in planTable : r.stmt # PlanStmtId

\* C3: every cursor a handler opened is closed when the handler returns: no
\* cursor is open between calls
C3_NoOpenCursors == openCursors = 0

\* the last call was an execute_sql whose read-producing statement was
\* fetched and rendered
RenderedRead ==
    /\ Called("execute_sql")
    /\ DidOk("fetchall")
    /\ ~IsError

\* C4: an execute_sql result holds a truncation notice iff the fetched row
\* count exceeds the configured cap, never more than one, and the notice
\* states the cap
C4_TruncationNotice ==
    RenderedRead =>
        /\ (Segs("truncated") # {} <=> env.nrows > MaxResults)
        /\ Cardinality(Segs("truncated")) <= 1
        /\ \A i \in Segs("truncated") : result.body[i].a = MaxResults

\* C5: a call that lacks its required argument gets an error text, no exception
\* escapes, and the call opens no cursor and executes no statement
C5_MissingArgument ==
    LacksRequired =>
        /\ raised = "none"
        /\ result.type = "text"
        /\ IsError
        /\ ~Did("cursor")
        /\ ~Did("execute")
        /\ stmts = <<>>

\* C5 witness: describe_table{} on an open connection was answered with the
\* KeyError as an error text
C5_Witness ==
    /\ Called("describe_table")
    /\ request.arguments = <<>>
    /\ connection # None
    /\ result.prefix = "Error executing "
    /\ result.body[2].seg = "KeyError"

\* the text with its leading whitespace removed
RECURSIVE DropLeadingSpace(_)
DropLeadingSpace(s) ==
    IF s # <<>> /\ s[1] \in Whitespace THEN DropLeadingSpace(Tail(s)) ELSE s

\* whether the text at position i reads letter k of word, in either case
ReadsLetter(s, i, word, k) ==
    \/ s[i] = word[k]
    \/ \E n \in 1..26 : Lower[n] = s[i] /\ Caps[n] = word[k]

\* the text, its leading whitespace and its case aside, begins with the word
BeginsWith(s, word) ==
    LET body == DropLeadingSpace(s)
    IN  /\ Len(body) >= Len(word)
        /\ \A k \in 1..Len(word) : ReadsLetter(body, k, word, k)

\* read-producing as the executor's contract states it
ReadByContract(query) == BeginsWith(query, KwSelect) \/ BeginsWith(query, KwWith)

\* the last call was an execute_sql that reached the database
Executed == Called("execute_sql") /\ Did("execute")

\* the query text of the last call
LastQuery == request.arguments["query"]

\* every commit of the last call comes after an execute
CommitAfterExecute ==
    \A c \in Ops("commit") : \E x \in Ops("execute") : x < c /\ trace[x].ok

\* the part of C6 that holds: classification, and when a commit is issued
CommitRule ==
    /\ Executed /\ DidOk("execute") =>
         /\ Did("fetchall") <=> ReadByContract(LastQuery)
         /\ Did("commit") <=> ~ReadByContract(LastQuery)
    /\ Called("execute_sql") =>
         /\ Cardinality(Ops("commit")) <= 1
         /\ CommitAfterExecute
         /\ Did("commit") => DidOk("execute") /\ ~ReadByContract(LastQuery)

\* C6 as stated: a statement is read-producing iff it begins with SELECT or
\* WITH after leading whitespace and case are set aside; a commit is issued
\* exactly when a mutating statement executed without error, after the
\* execute, and the result then reports the affected-row count
C6_CommitThenRowCount ==
    /\ CommitRule
    /\ (Called("execute_sql") /\ Did("commit")) =>
          result = Text("", <<Seg("affected", env.nrows, 0, 0)>>)

\* C6 amended: as stated, but the result reports the affected-row count when
\* the commit returns; when the commit raises, the result is the SQL error text
C6_CommitThenRowCountUnlessCommitFails ==
    /\ CommitRule
    /\ (Called("execute_sql") /\ DidOk("commit")) =>
          result = Text("", <<Seg("affected", env.nrows, 0, 0)>>)
    /\ (Called("execute_sql") /\ Failed("commit")) =>
          result.prefix = "SQL Error: "

\* C6 witness: "update t" was executed, committed and answered with the
\* affected-row count
C6_Witness ==
    /\ Executed
    /\ LastQuery = <<"u","p","d","a","t","e"," ","t">>
    /\ DidOk("commit")
    /\ env.nrows > 0
    /\ Segs("affected") # {}

\* the database calls that run on a connection handle
OnConnection(i) == trace[i].op # "connect"

\* C7: a call of _connect_database with a handle present opens nothing and
\* leaves the handle as it is; the connection is opened at most once, and
\* every database call of every request runs on that handle
C7_ConnectOnce ==
    /\ [][connection # None =>
            /\ connection' = connection
            /\ connOpens' = connOpens]_vars
    /\ [](/\ connOpens <= 1
          /\ \A i \in 1..Len(trace) : OnConnection(i) => trace[i].conn = 1)

\* C7 witness: a request executed a statement on the handle an earlier
\* request had opened
C7_Witness ==
    /\ Served /\ connection = 1 /\ connOpens = 1
    /\ ~Did("connect")
    /\ DidOk("execute")

\* the positions of a token in a statement text
Tokens(text, tok) == {i \in 1..Len(text) : text[i] = tok}

\* a filter query is well formed: one WHERE opens the conditions, and every
\* AND and every placeholder comes after it
WellFormedFilter(text) ==
    LET conds == {i \in 1..Len(text) : text[i] = "AND" \/ text[i] \in PlaceholderTokens}
    IN  /\ Cardinality(Tokens(text, "WHERE")) <= 1
        /\ \A i \in conds : \E w \in Tokens(text, "WHERE") : w < i

\* the statement ends with the given tokens
EndsWith(text, tail) ==
    /\ Len(text) >= Len(tail)
    /\ SubSeq(text, Len(text) - Len(tail) + 1, Len(text)) = tail

\* the argument is present and not empty
Given(key) == key \in DOMAIN request.arguments /\ request.arguments[key] # <<>>

\* the last call was a list_tables that built and sent its statement
Listed == Called("list_tables") /\ stmts # <<>>

\* C8: whichever of schema and pattern are given, the list_tables statement is
\* a well-formed filter query: as many placeholders as parameters, the pattern
\* (upper-cased, between % signs) a further condition of a WHERE clause, and
\* the ordering by table name at the end
C8_ListStatementWellFormed ==
    Listed =>
        LET q == stmts[1]
        IN  /\ Placeholders(q.text) = Len(q.params)
            /\ WellFormedFilter(q.text)
            /\ EndsWith(q.text, <<"ORDER BY", "TABLE_NAME">>)
            /\ Given("pattern") =>
                 /\ Tokens(q.text, ":pattern") # {}
                 /\ q.params[Len(q.params)] = <<"%", "E", "M", "P", "%">>
            /\ ~Given("pattern") => Tokens(q.text, ":pattern") = {}

\* the edges the constraint catalog holds: for each foreign key in name order,
\* for each column position in order, the local column paired with the
\* referenced column at the same position
RECURSIVE CatalogEdges(_, _)
CatalogEdges(cat, i) ==
    IF i > Len(cat) THEN <<>>
    ELSE [p \in 1..cat[i] |-> Seg("edge", i, p, p)] \o CatalogEdges(cat, i + 1)

IsEdge(x) == x.seg = "edge"

\* the last call was a get_table_relationships that fetched its rows
FetchedRelationships ==
    /\ Called("get_table_relationships")
    /\ DidOk("fetchall")
    /\ ~IsError

\* C9: get_table_relationships renders exactly one edge per foreign-key
\* column, the local column paired with the referenced column of the same
\* position, by constraint name and then by position
C9_OneEdgePerColumn ==
    FetchedRelationships =>
        SelectSeq(result.body, IsEdge) = CatalogEdges(env.fk, 1)

\* the upper-case forms of the sample names
UpperCased(v) ==
    CASE v = <<"o","r","d","e","r","s">> -> <<"O","R","D","E","R","S">>
      [] v = <<"s","a","l","e","s">> -> <<"S","A","L","E","S">>
      [] v = <<>> -> <<>>

\* the last call was a describe_table that built and sent its statement
Described == Called("describe_table") /\ stmts # <<>>

\* C10: describe_table binds the upper-cased table name alone to a query of
\* USER_TAB_COLUMNS when no schema (or an empty one) is given, and the
\* upper-cased table name and schema to a query of ALL_TAB_COLUMNS filtered by
\* owner when a schema is given; placeholders and parameters agree in number
\* and the rows are ordered by column sequence
C10_DescribeStatement ==
    Described =>
        LET q == stmts[1]
            table == UpperCased(request.arguments["table_name"])
        IN  /\ Placeholders(q.text) = Len(q.params)
            /\ EndsWith(q.text, <<"ORDER BY", "COLUMN_ID">>)
            /\ Tokens(q.text, ":table_name") # {}
            /\ IF Given("schema")
               THEN /\ Tokens(q.text, "ALL_TAB_COLUMNS") # {}
                    /\ Tokens(q.text, "USER_TAB_COLUMNS") = {}
                    /\ \E i \in Tokens(q.text, "OWNER") : q.text[i + 2] = ":schema"
                    /\ q.params = <<table, UpperCased(request.arguments["schema"])>>
               ELSE /\ Tokens(q.text, "USER_TAB_COLUMNS") # {}
                    /\ Tokens(q.text, "ALL_TAB_COLUMNS") = {}
                    /\ Tokens(q.text, ":schema") = {}
                    /\ q.params = <<table>>

\* C10 witness: describe_table{table_name: "orders", schema: "sales"} bound
\* ORDERS and SALES and its rows were rendered
C10_Witness ==
    /\ Described /\ Given("schema")
    /\ stmts[1].params = <<OrdersName, OwnerName>>
    /\ Segs("column") # {}

SummaryRead == Served /\ request.name \in ResourceUris

\* a step of the last read failed: a database call, or the read of
\* db_index.json
ReadFailed ==
    \/ \E i \in DOMAIN trace : ~trace[i].ok
    \/ env.failAt = "index"
    \/ raised # "none"

\* C12: a read of the schema snapshot or of the table inventory never
\* raises; it returns JSON, and when a step failed (the open of the
\* connection, the catalog query, the read of the index file) the JSON is a
\* mapping with the key "error".
C12_ResourceReadNeverRaises ==
    SummaryRead =>
        /\ raised = "none"
        /\ result.type = "json"
        /\ ReadFailed => result.prefix = "error"

\* a step in which the handler of an unknown tool name runs
UnknownToolStep == Idle /\ request'.name \in UnknownNames

\* C13: a call with a name outside the five tools returns the text
\* "Unknown tool: <name>" without raising, and changes nothing: the
\* connection is not opened, no cursor is opened, no statement is executed,
\* nothing is committed and PLAN_TABLE is as before.
C13_UnknownToolNoEffect ==
    [][UnknownToolStep =>
         /\ result' = Text("Unknown tool: ", <<Seg(request'.name, 0, 0, 0)>>)
         /\ raised' = "none"
         /\ trace' = <<>> /\ stmts' = <<>>
         /\ connection' = connection /\ connOpens' = connOpens
         /\ openCursors' = openCursors /\ planTable' = planTable
         /\ config' = config]_vars

\* C13 witness: an unknown name was answered while the connection could
\* have been opened (the driver is present, self.connection is None)
C13_Witness ==
    /\ Served /\ request.name \in UnknownNames
    /\ oracledb /\ connection = None
    /\ result.prefix = "Unknown tool: "

\* a database call of the last request failed
SomeCallFailed == \E i \in DOMAIN trace : ~trace[i].ok

\* the last request ended in one reported error: a tool call returned an
\* error text, a resource read returned the "error" mapping or raised
OneErrorReported ==
    IF ToolCall THEN raised = "none" /\ IsError
    ELSE (raised # "none") # (result.type = "json" /\ result.prefix = "error")

\* C14: nothing is tried twice within a request.  The open of the connection
\* is attempted at most once; every statement of the request is sent to the
\* database at most once; a call that fails is the last database call of the
\* request, which then ends in exactly one reported error; and after a
\* failed open self.connection is still None.
C14_NoRetry ==
    Served =>
        /\ Cardinality(Ops("connect")) <= 1
        /\ Cardinality(Ops("execute")) = Len(stmts)
        /\ \A i, j \in DOMAIN stmts : stmts[i].text = stmts[j].text => i = j
        /\ \A i \in DOMAIN trace : ~trace[i].ok => i = Len(trace)
        /\ SomeCallFailed => OneErrorReported
        /\ Failed("connect") => connection = None

\* C14 witness: analyze_query_plan opened the connection, its EXPLAIN PLAN
\* went through and its plan query failed: two statements sent, one error
C14_Witness ==
    /\ Served /\ Called("analyze_query_plan")
    /\ DidOk("connect") /\ Failed("execute")
    /\ Len(stmts) = 2 /\ IsError

\* C14 witness of the failed open: the request ended in an error after one
\* attempt and self.connection is None
C14_WitnessOpen ==
    /\ Served /\ Failed("connect")
    /\ Cardinality(Ops("connect")) = 1 /\ connection = None

\* the parent/child walk of a plan tree from one node: the node, then the
\* walks of its children, the children taken in id order; each entry is
\* [id, level], the root being at level 1
RECURSIVE TreeWalk(_, _, _), TreeWalkAll(_, _, _)
TreeWalk(tree, node, level) ==
    <<[id |-> node, level |-> level]>>
    \o TreeWalkAll(tree, {i - 1 : i \in {j \in 1..Len(tree) : tree[j] = node}},
                   level + 1)
TreeWalkAll(tree, nodes, level) ==
    IF nodes = {} THEN <<>>
    ELSE LET m == CHOOSE n \in nodes : \A k \in nodes : n <= k
         IN  TreeWalk(tree, m, level) \o TreeWalkAll(tree, nodes \ {m}, level)

\* the plan lines of the last result, in the order rendered
PlanLines == SubSeq(result.body, 4, Len(result.body))

\* the last call was an analyze_query_plan that rendered the plan of its own
\* query: as many lines as the tree the database registered has nodes
RenderedPlan ==
    /\ Served /\ Called("analyze_query_plan")
    /\ Segs("plan") # {}
    /\ Cardinality(Segs("plan")) = Len(env.tree)

\* C15: whatever ids the nodes of the plan tree carry, analyze_query_plan
\* renders them in tree-walk order (the root, then each node followed at once
\* by its children, siblings by id), each line indented by twice the depth
\* of its node.
C15_PlanInTreeWalkOrder ==
    RenderedPlan =>
        LET walk == TreeWalk(env.tree, 0, 1)
        IN  PlanLines = [i \in 1..Len(walk) |->
                           Seg("plan", walk[i].id, 2 * walk[i].level, 0)]
====
